---- MODULE Spec2Model ----
(***************************************************************************)
(* Hybrid recommendation engine: the user-profile embedding cache          *)
(* (scripts/shared_utils.py), the signal-scoped candidate generators       *)
(* (scripts/recommend_*_based.py) and the merge / rank stage               *)
(* (scripts/recommend_master.py).                                          *)
(*                                                                         *)
(* Numbers.  Vectors are pairs of integers.  float32 values are the       *)
(* multiples of Fine; float64 values are all integers, so a float64        *)
(* result that is cast to float32 is rounded to the nearest multiple of    *)
(* Fine.  Timestamps are integer ticks of one second.  Weights are in      *)
(* thousandths.  Similarity scores are inner products of vectors           *)
(* normalised to length Unit.                                              *)
(***************************************************************************)
EXTENDS Integers, Sequences, FiniteSets, TLC

VARIABLES
    interactions,   \* data/user_interactions.parquet: the rows, in file order
    cache,          \* data/user_embeddings.parquet: the rows (<<>>: no file)
    ops,            \* the last operations performed, oldest first (history)
    mergeIn,        \* the four candidate lists handed to the merge
    mergeOut,       \* what the merge returned for mergeIn (two runs)
    cartOut,        \* the last recommend_cart_based call
    req,            \* the last recommend_for_user request
    llm_cache,      \* data/llm_cache: the cached explanations, one per file
    catalog,        \* data/product_catalog.db: product_id -> products row
    client,         \* recommend_explain_llm.client is set (an API key is given)
    procs,          \* concurrent get_or_build_user_embedding calls in progress
    product_matrix, \* the product_embeddings array a request's generators share
    searched,       \* the index searches issued since the array was loaded
    sqlite_db,      \* data/user_interactions.db: whether it exists, and its rows
    parquet_exists  \* data/user_interactions.parquet exists

enrichVars == <<llm_cache, catalog, client>>

storeVars == <<product_matrix, searched, sqlite_db, parquet_exists>>

vars == <<interactions, cache, ops, mergeIn, mergeOut, cartOut, req,
          llm_cache, catalog, client, procs,
          product_matrix, searched, sqlite_db, parquet_exists>>

----------------------------------------------------------------------------
(* Bounds of the model *)

MaxLog == 2         \* rows in the interaction log (cache and request runs)
MaxTs == 2          \* timestamps are 1..MaxTs
MaxStaleLog == 3    \* rows in the interaction log (one user's staleness runs)
MaxStaleTs == 3     \* timestamps are 1..MaxStaleTs there
MaxCartLog == 3     \* rows in the interaction log (cart generator runs)
MaxCand == 3        \* candidates handed to the merge, over the four lists

----------------------------------------------------------------------------
(* Program constants *)

Fine == 16          \* float64 steps per float32 step
Unit == 1000        \* length of an L2-normalised vector

\* display names of the catalog: a product's name, the empty name, and the
\* sentinel of recommend_for_user
ProductName(pid) == <<"name", pid>>
EmptyName == <<>>
Sentinel == <<"Unknown Product">>

Users == {"U1", "U2"}
EventTypes == {"view", "add_to_cart", "purchase"}
Timestamps == 1..MaxTs

\* load_product_embeddings: the ordered product ids and the embedding matrix.
\* The stored embeddings are float32 values (multiples of Fine).
product_ids == <<"P1", "P2", "P3", "P4", "P5", "P6", "P7">>

product_embeddings ==
    << <<3 * Fine, 4 * Fine>>,  <<4 * Fine, 3 * Fine>>, <<5 * Fine, 12 * Fine>>,
       <<12 * Fine, 5 * Fine>>, <<6 * Fine, 8 * Fine>>, <<1 * Fine, 0>>,
       <<0, 2 * Fine>> >>

NumProducts == Len(product_ids)
Products == {product_ids[i] : i \in 1..NumProducts}

\* product_id_to_index = {pid: idx for idx, pid in enumerate(product_ids)}
product_id_to_index(pid) == CHOOSE i \in 1..NumProducts : product_ids[i] = pid

EVENT_WEIGHTS(e) ==
    CASE e = "purchase" -> 5
      [] e = "add_to_cart" -> 3
      [] e = "view" -> 1
      [] OTHER -> 1

----------------------------------------------------------------------------
(* Arithmetic helpers *)

RECURSIVE SumSeq(_)
SumSeq(s) == IF s = <<>> THEN 0 ELSE Head(s) + SumSeq(Tail(s))

RECURSIVE MaxSeq(_)
MaxSeq(s) == IF Len(s) = 1 THEN s[1]
             ELSE LET m == MaxSeq(Tail(s)) IN IF s[1] >= m THEN s[1] ELSE m

RECURSIVE SqrtBetween(_, _, _)
SqrtBetween(n, lo, hi) ==
    IF lo >= hi THEN lo
    ELSE LET mid == (lo + hi + 1) \div 2
         IN IF mid * mid <= n THEN SqrtBetween(n, mid, hi)
            ELSE SqrtBetween(n, lo, mid - 1)

\* floor of the square root
ISqrt(n) == SqrtBetween(n, 0, 2048)

\* round to nearest, n >= 0 and d > 0
RoundDiv(n, d) == (2 * n + d) \div (2 * d)

\* astype(np.float32) / np.array(..., dtype=np.float32) on one number
F32Num(x) == RoundDiv(x, Fine) * Fine

\* ... on a vector
F32(v) == <<F32Num(v[1]), F32Num(v[2])>>

\* faiss.normalize_L2 on one (float32) vector
normalize_L2(v) ==
    LET n == ISqrt(v[1] * v[1] + v[2] * v[2])
    IN IF n = 0 THEN v
       ELSE <<RoundDiv(v[1] * Unit, n), RoundDiv(v[2] * Unit, n)>>

InnerProduct(a, b) == a[1] * b[1] + a[2] * b[2]

\* np.exp(-0.05 * d) for a difference of d seconds, in thousandths
DecayTable == <<1000, 951, 905, 861, 819, 779, 741, 705>>
ExpDecay(d) == IF d + 1 <= Len(DecayTable) THEN DecayTable[d + 1] ELSE 0

----------------------------------------------------------------------------
(* The interaction log *)

Event(u, p, e, t) ==
    [user_id |-> u, product_id |-> p, event_type |-> e, timestamp |-> t]

\* (mutant) the rows are not filtered by user
UserRows_All(df, user_id) == df

\* interactions_df[interactions_df["user_id"] == user_id]
UserRows(df, user_id) == SelectSeq(df, LAMBDA r : r.user_id = user_id)

\* (mutant) the filter on the event type left out
TypeRows_All(df, event_type) == df

\* user_df[user_df["event_type"] == event_type]
TypeRows(df, event_type) == SelectSeq(df, LAMBDA r : r.event_type = event_type)

TimestampsOf(df) == [i \in 1..Len(df) |-> df[i].timestamp]

----------------------------------------------------------------------------
(* compute_user_embedding *)

\* weights: EVENT_WEIGHTS, times exp(-0.05 * (now - t)) under time decay,
\* now being the user's own latest timestamp
EventWeight(row, now, apply_time_decay) ==
    IF apply_time_decay
    THEN EVENT_WEIGHTS(row.event_type) * ExpDecay(now - row.timestamp)
    ELSE EVENT_WEIGHTS(row.event_type) * 1000

\* np.sum(weighted_vectors, axis=0) / np.sum(weights), in float64
compute_user_embedding(user_id, interactions_df, apply_time_decay) ==
    LET user_data == UserRows(interactions_df, user_id)
    IN IF user_data = <<>>
       THEN [raised |-> "ValueError", vec |-> <<0, 0>>]
       ELSE IF \E i \in 1..Len(user_data) : user_data[i].product_id \notin Products
       THEN [raised |-> "KeyError", vec |-> <<0, 0>>]
       ELSE
         LET now == MaxSeq(TimestampsOf(user_data))
             weights == [i \in 1..Len(user_data) |->
                            EventWeight(user_data[i], now, apply_time_decay)]
             vectors == [i \in 1..Len(user_data) |->
                    product_embeddings[product_id_to_index(user_data[i].product_id)]]
             total == SumSeq(weights)
             coord(c) == RoundDiv(
                 SumSeq([i \in 1..Len(user_data) |-> vectors[i][c] * weights[i]]),
                 total)
         IN [raised |-> "none", vec |-> <<coord(1), coord(2)>>]

----------------------------------------------------------------------------
(* The user-embedding cache *)

\* last_event_ts.isoformat(): the timestamp as text
isoformat(t) == <<"iso", t>>

\* pd.to_datetime(text)
to_datetime(s) == s[2]

CacheRow(u, emb, ts) == [user_id |-> u, embedding |-> emb, last_event_ts |-> ts]

\* cache_df[cache_df["user_id"] == str(user_id)]
CachedRows(cache_df, user_id) == SelectSeq(cache_df, LAMBDA r : r.user_id = user_id)

\* (mutant) the record is appended whether or not the user has a row
UpsertCache_AppendAlways(cache_df, rec) == Append(cache_df, rec)

\* the "Update cache" block: a new frame for an empty cache, the matching rows
\* overwritten in place, or one row appended
UpsertCache(cache_df, rec) ==
    IF cache_df = <<>>
    THEN <<rec>>
    ELSE IF \E i \in 1..Len(cache_df) : cache_df[i].user_id = rec.user_id
    THEN [i \in 1..Len(cache_df) |->
            IF cache_df[i].user_id = rec.user_id
            THEN [cache_df[i] EXCEPT !.embedding = rec.embedding,
                                     !.last_event_ts = rec.last_event_ts]
            ELSE cache_df[i]]
    ELSE Append(cache_df, rec)

\* (mutant) the comparison turned round: an older row counts as fresh
CacheFresh_Reversed(cached_row, last_event_ts) ==
    to_datetime(cached_row.last_event_ts) <= last_event_ts

\* The validity test of a cached row against the log's latest timestamp
CacheFresh(cached_row, last_event_ts) ==
    to_datetime(cached_row.last_event_ts) >= last_event_ts

\* What a cache hit returns: np.array(cached embedding, dtype=np.float32)
HitVector(cached_row) == F32(cached_row.embedding)

\* What a recomputation stores: the vector as a list, the timestamp as text
MissRecord(user_id, user_vector, last_event_ts) ==
    CacheRow(user_id, user_vector, isoformat(last_event_ts))

\* mask.any() on a cache that is not empty: the row is overwritten through
\* cache_df.loc[mask, ["embedding", "last_event_ts"]] = [list, text]
ReplacesRow(cache_df, user_id) ==
    /\ cache_df # <<>>
    /\ \E i \in 1..Len(cache_df) : cache_df[i].user_id = user_id

\* what that assignment raises when pandas does not store the list in the
\* one cell: it then takes the list for the values of as many cells
LocError == "ValueError (loc assignment)"

\* get_or_build_user_embedding, from the files it reads to what it returns
\* and the cache file it leaves.  cached_ts is 0 when no row was compared.
\* loc_ok: the pandas in use stores a list-valued cell assigned through .loc
\* (line 134); otherwise the assignment raises and the file is not written.
get_or_build_user_embedding(user_id, apply_time_decay, force, file, cache_file, loc_ok) ==
    LET user_df == UserRows(file, user_id)
    IN IF user_df = <<>>
       THEN [raised |-> "ValueError", hit |-> FALSE, vec |-> <<0, 0>>,
             last_event_ts |-> 0, cached_ts |-> 0, cache |-> cache_file]
       ELSE
         LET last_event_ts == MaxSeq(TimestampsOf(user_df))
             cached_row == CachedRows(cache_file, user_id)
             compared == ~force /\ cached_row # <<>>
             cached_ts == IF compared THEN to_datetime(cached_row[1].last_event_ts)
                          ELSE 0
         IN IF compared /\ CacheFresh(cached_row[1], last_event_ts)
            THEN [raised |-> "none", hit |-> TRUE, vec |-> HitVector(cached_row[1]),
                  last_event_ts |-> last_event_ts, cached_ts |-> cached_ts,
                  cache |-> cache_file]
            ELSE
              LET built == compute_user_embedding(user_id, file, apply_time_decay)
              IN IF built.raised # "none"
                 THEN [raised |-> built.raised, hit |-> FALSE, vec |-> <<0, 0>>,
                       last_event_ts |-> last_event_ts, cached_ts |-> cached_ts,
                       cache |-> cache_file]
                 ELSE IF ReplacesRow(cache_file, user_id) /\ ~loc_ok
                 THEN [raised |-> LocError, hit |-> FALSE, vec |-> <<0, 0>>,
                       last_event_ts |-> last_event_ts, cached_ts |-> cached_ts,
                       cache |-> cache_file]
                 ELSE [raised |-> "none", hit |-> FALSE, vec |-> built.vec,
                       last_event_ts |-> last_event_ts, cached_ts |-> cached_ts,
                       cache |-> UpsertCache(cache_file,
                           MissRecord(user_id, built.vec, last_event_ts))]

----------------------------------------------------------------------------
(* build_faiss_index and index.search *)

\* build_faiss_index: a float32 copy of the matrix, each row L2-normalised,
\* added to an inner-product index
build_faiss_index(embeddings) ==
    [i \in 1..Len(embeddings) |-> normalize_L2(F32(embeddings[i]))]

\* the score faiss reports in the places it cannot fill (label -1)
PadScore == 0 - (4 * Unit * Unit)

\* the place of row i in the ranking of the index rows by inner product with
\* the query, descending; equal scores in row order
RankOf(index, query, i) ==
    1 + Cardinality({j \in 1..Len(index) :
          \/ InnerProduct(query, index[j]) > InnerProduct(query, index[i])
          \/ /\ InnerProduct(query, index[j]) = InnerProduct(query, index[i])
             /\ j < i})

\* D, I = index.search(query, k): k (label, score) pairs, best first, the
\* places beyond the size of the index filled with label -1
search(index, query, k) ==
    [n \in 1..k |->
        IF n <= Len(index)
        THEN LET i == CHOOSE j \in 1..Len(index) : RankOf(index, query, j) = n
             IN [label |-> i, score |-> InnerProduct(query, index[i])]
        ELSE [label |-> -1, score |-> PadScore]]

\* product_ids[i] for a label of the search: labels count rows from the
\* first, and product_ids[-1] is the last product id
ProductAt(label) ==
    IF label = -1 THEN product_ids[NumProducts] ELSE product_ids[label]

----------------------------------------------------------------------------
(* compute_event_probabilities *)

\* the wall clock (pd.Timestamp.now()): not before any event of the log
Now == MaxTs + MaxStaleTs

\* np.exp(-0.1 * delta_days) for an age of d seconds, in ten-millionths
AgeTable == <<10000000, 9999988, 9999977, 9999965, 9999954, 9999942,
              9999931, 9999919, 9999907, 9999896>>
AgeDecay(d) == AgeTable[d + 1]

\* decay_weight = base_weight * exp(-decay_rate * delta_days)
DecayWeight(row) == EVENT_WEIGHTS(row.event_type) * AgeDecay(Now - row.timestamp)

\* the frame with its probability column: decay_weight / decay_weight.sum(),
\* kept as numerator and denominator
compute_event_probabilities(df) ==
    LET total == SumSeq([i \in 1..Len(df) |-> DecayWeight(df[i])])
    IN [i \in 1..Len(df) |->
          [user_id |-> df[i].user_id, product_id |-> df[i].product_id,
           event_type |-> df[i].event_type, timestamp |-> df[i].timestamp,
           probability |-> [num |-> DecayWeight(df[i]), den |-> total]]]

\* sort_values("probability", ascending=False): the orders of the rows that
\* are descending in probability (rows of equal probability in any order)
DescendingOrders(df) ==
    {o \in [1..Len(df) -> 1..Len(df)] :
        /\ \A i, j \in 1..Len(df) : o[i] = o[j] => i = j
        /\ \A i, j \in 1..Len(df) :
              i < j => df[o[i]].probability.num >= df[o[j]].probability.num}

----------------------------------------------------------------------------
(* recommend_cart_based *)

Min(a, b) == IF a <= b THEN a ELSE b

\* the inner loop over one seed's search results: a result that is neither
\* the seed nor already seen is appended, and the loop is left once an append
\* brings the list to top_k entries or more
ScanNeighbors(results, pid, recs, source_event, top_k) ==
    LET RECURSIVE Go(_, _)
        Go(n, acc) ==
           IF n > Len(results) THEN acc
           ELSE LET candidate_id == ProductAt(results[n].label)
                IN IF /\ candidate_id # pid
                      /\ \A x \in 1..Len(acc) : acc[x].product_id # candidate_id
                   THEN LET more == Append(acc,
                               [product_id |-> candidate_id,
                                score |-> results[n].score,
                                source_event |-> source_event])
                        IN IF Len(more) >= top_k THEN more
                           ELSE Go(n + 1, more)
                   ELSE Go(n + 1, acc)
    IN Go(1, recs)

\* top_k of recommend_cart_based, and of the view generator
CartTopK == 3
ViewTopK == 5

\* the seeds: the product ids of the first 3 rows of the sorted frame
SeedCount == 3
Seeds(sorted_df) ==
    [i \in 1..Min(SeedCount, Len(sorted_df)) |-> sorted_df[i].product_id]

\* faiss_index = build_faiss_index(product_embeddings), on the loaded matrix
FaissIndex == build_faiss_index(product_embeddings)

\* vec = product_embeddings[product_id_to_index[pid]] as float32, normalised,
\* and faiss_index.search(vec, k): tabulated per seed product and k
SeedSearch ==
    [pid \in Products |-> [k \in {3 * CartTopK, 3 * ViewTopK} |->
        search(FaissIndex,
               normalize_L2(F32(product_embeddings[product_id_to_index(pid)])),
               k)]]

\* the outer loop over the seeds; searches counts the index searches
RECURSIVE OverSeeds(_, _, _, _, _)
OverSeeds(seeds, acc, searches, source_event, top_k) ==
    IF seeds = <<>> THEN [recs |-> acc, searches |-> searches]
    ELSE LET pid == Head(seeds)
         IN IF pid \notin Products
            THEN OverSeeds(Tail(seeds), acc, searches, source_event, top_k)
            ELSE OverSeeds(Tail(seeds),
                    ScanNeighbors(SeedSearch[pid][top_k * 3], pid, acc,
                                  source_event, top_k),
                    searches + 1, source_event, top_k)

\* a generator seeded by the user's events of one type; order is the order
\* sort_values gives the rows
SeedGenerator(user_id, interactions_df, event_type, source_event, top_k, order) ==
    LET user_df == TypeRows(
            compute_event_probabilities(UserRows(interactions_df, user_id)),
            event_type)
    IN IF user_df = <<>>
       THEN [recs |-> <<>>, built |-> FALSE, searches |-> 0, seeds |-> <<>>]
       ELSE LET sorted_df == [i \in 1..Len(user_df) |-> user_df[order[i]]]
                run == OverSeeds(Seeds(sorted_df), <<>>, 0, source_event, top_k)
            IN [recs |-> run.recs, built |-> TRUE, searches |-> run.searches,
                seeds |-> Seeds(sorted_df)]

\* the orders sort_values may give the user's rows of one type
SeedOrders(user_id, interactions_df, event_type) ==
    DescendingOrders(TypeRows(
        compute_event_probabilities(UserRows(interactions_df, user_id)),
        event_type))

recommend_cart_based(user_id, interactions_df, order) ==
    SeedGenerator(user_id, interactions_df, "add_to_cart", "add_to_cart",
                  CartTopK, order)

----------------------------------------------------------------------------
(* recommend_for_user: the merge of the generators' candidate lists *)

Candidate(pid, score, source_event) ==
    [product_id |-> pid, score |-> score, source_event |-> source_event]

\* rec_dict is a dict: its keys in insertion order, one value per key.
\* It is kept as the sequence of its values, in key insertion order.
KeyIndex(rec_dict, pid) ==
    IF \E i \in 1..Len(rec_dict) : rec_dict[i].product_id = pid
    THEN CHOOSE i \in 1..Len(rec_dict) : rec_dict[i].product_id = pid
    ELSE 0

\* (mutant) a candidate replaces the stored one on an equal score too
Replaces_OnTie(r, stored) == r.score >= stored.score

\* r["score"] > rec_dict[pid]["score"]
Replaces(r, stored) == r.score > stored.score

\* (mutant) the first candidate of a product_id is kept whatever comes later
AddRec_KeepFirst(rec_dict, r) ==
    IF KeyIndex(rec_dict, r.product_id) = 0 THEN Append(rec_dict, r) ELSE rec_dict

\* one turn of the loop of add_recs:
\* if pid not in rec_dict or r["score"] > rec_dict[pid]["score"]: rec_dict[pid] = r
AddRec(rec_dict, r) ==
    LET k == KeyIndex(rec_dict, r.product_id)
    IN IF k = 0 THEN Append(rec_dict, r)
       ELSE IF Replaces(r, rec_dict[k]) THEN [rec_dict EXCEPT ![k] = r]
       ELSE rec_dict

RECURSIVE add_recs(_, _)
add_recs(rec_dict, new_recs) ==
    IF new_recs = <<>> THEN rec_dict
    ELSE add_recs(AddRec(rec_dict, Head(new_recs)), Tail(new_recs))

\* (mutant) an entry goes before the entries of equal score
InsertByScore_Unstable(sorted, r) ==
    LET before == SelectSeq(sorted, LAMBDA x : x.score > r.score)
        after == SelectSeq(sorted, LAMBDA x : x.score <= r.score)
    IN before \o <<r>> \o after

\* sorted(..., key=score, reverse=True) is stable: an entry goes after the
\* entries of greater or equal score that came before it
InsertByScore(sorted, r) ==
    LET before == SelectSeq(sorted, LAMBDA x : x.score >= r.score)
        after == SelectSeq(sorted, LAMBDA x : x.score < r.score)
    IN before \o <<r>> \o after

RECURSIVE SortInto(_, _)
SortInto(sorted, rest) ==
    IF rest = <<>> THEN sorted
    ELSE SortInto(InsertByScore(sorted, Head(rest)), Tail(rest))

sorted_by_score(values) == SortInto(<<>>, values)

\* (mutant) one entry more
FinalCount_Six == 5 + 1

\* the [:5] of the ranking
FinalCount == 5

Truncate(s, n) == IF Len(s) <= n THEN s ELSE SubSeq(s, 1, n)

\* rec_dict after the four add_recs calls
FoldSources(view_recs, cart_recs, purchase_recs, profile_recs) ==
    add_recs(add_recs(add_recs(add_recs(<<>>, view_recs), cart_recs),
                      purchase_recs), profile_recs)

\* recommendations = sorted(rec_dict.values(), ...)[:5]
Rank(rec_dict) == Truncate(sorted_by_score(rec_dict), FinalCount)

----------------------------------------------------------------------------
(* The view and purchase generators, and recommend_profile_based *)

PurchaseTopK == 3

\* the view generator: seeded by the most recent viewed products, up to
\* top_k candidates, none twice
recommend_view_based(user_id, interactions_df, order) ==
    Truncate(SeedGenerator(user_id, interactions_df, "view", "view",
                           ViewTopK, order).recs, ViewTopK)

\* the purchase generator: the shape of the cart generator on purchase events
recommend_purchase_based(user_id, interactions_df, order) ==
    Truncate(SeedGenerator(user_id, interactions_df, "purchase", "purchase",
                           PurchaseTopK, order).recs, PurchaseTopK)

ProfileTopK == 10

\* (mutant) the loop without the test against seen_products
RECURSIVE ScanProfile_NoExclude(_, _, _, _)
ScanProfile_NoExclude(results, seen_products, acc, top_k) ==
    IF results = <<>> THEN acc
    ELSE LET pid == ProductAt(Head(results).label)
             more == Append(acc, Candidate(pid, Head(results).score, "profile"))
         IN IF Len(more) >= top_k THEN more
            ELSE ScanProfile_NoExclude(Tail(results), seen_products, more, top_k)

\* the loop of recommend_profile_based over the search results: a result not
\* in seen_products is appended; the loop is left at top_k entries
RECURSIVE ScanProfile(_, _, _, _)
ScanProfile(results, seen_products, acc, top_k) ==
    IF results = <<>> THEN acc
    ELSE LET pid == ProductAt(Head(results).label)
             more == IF pid \notin seen_products
                     THEN Append(acc, Candidate(pid, Head(results).score, "profile"))
                     ELSE acc
         IN IF Len(more) >= top_k THEN more
            ELSE ScanProfile(Tail(results), seen_products, more, top_k)

\* recommend_profile_based, given what get_or_build_user_embedding returned
recommend_profile_based(user_vector, seen_products) ==
    ScanProfile(search(FaissIndex, normalize_L2(F32(user_vector)), ProfileTopK * 2),
                seen_products, <<>>, ProfileTopK)

\* seen_products = set(rec_dict.keys())
Keys(rec_dict) == {rec_dict[i].product_id : i \in 1..Len(rec_dict)}

\* recommend_for_user up to the ranking (lines 22-61), on the log and the
\* cache file; the orders are those sort_values gives the seed rows
recommend_for_user(user_id, file, cache_file, view_order, cart_order, purchase_order, loc_ok) ==
    LET interactions_df == file
        view_recs == recommend_view_based(user_id, interactions_df, view_order)
        cart_recs == recommend_cart_based(user_id, interactions_df, cart_order).recs
        purchase_recs ==
            recommend_purchase_based(user_id, interactions_df, purchase_order)
        seen_products == Keys(add_recs(add_recs(add_recs(<<>>, view_recs),
                                                cart_recs), purchase_recs))
        built == get_or_build_user_embedding(user_id, TRUE, FALSE, file,
                                             cache_file, loc_ok)
    IN IF built.raised # "none"
       THEN [raised |-> built.raised, view_recs |-> view_recs,
             cart_recs |-> cart_recs, purchase_recs |-> purchase_recs,
             profile_recs |-> <<>>, output |-> <<>>, cache |-> built.cache]
       ELSE LET profile_recs == recommend_profile_based(built.vec, seen_products)
            IN [raised |-> "none", view_recs |-> view_recs,
                cart_recs |-> cart_recs, purchase_recs |-> purchase_recs,
                profile_recs |-> profile_recs,
                output |-> Rank(FoldSources(view_recs, cart_recs,
                                            purchase_recs, profile_recs)),
                cache |-> built.cache]

----------------------------------------------------------------------------
(* State shared by the specifications *)

\* the products that interaction events refer to
EventProducts == {"P1", "P2"}

AllEvents ==
    {Event(u, p, e, t) : u \in Users, p \in EventProducts,
                         e \in EventTypes, t \in Timestamps}

None == [kind |-> "none"]

\* what the history keeps of the operation before the last one
Brief(op) ==
    IF op.kind = "call"
    THEN [kind |-> "call", user_id |-> op.user_id, raised |-> op.raised,
          vec |-> op.vec]
    ELSE [kind |-> op.kind]

\* the history keeps the last call and, in brief, what came right before it
Remember(history, op) ==
    IF op.kind = "append" \/ history = <<>>
    THEN <<op>>
    ELSE <<Brief(history[Len(history)]), op>>

LastOp == IF ops = <<>> THEN None ELSE ops[Len(ops)]
PrevOp == IF Len(ops) < 2 THEN None ELSE ops[1]

----------------------------------------------------------------------------
(* The cache under sequential use: events are appended to the log, and    *)
(* get_or_build_user_embedding is called, one call at a time.             *)

\* the state of the files and arrays the other operations take as given: the
\* array is as load_product_embeddings returns it, nothing is searched yet,
\* and the parquet log exists
InitStore ==
    /\ product_matrix = product_embeddings
    /\ searched = <<>>
    /\ sqlite_db = [exists |-> TRUE, rows |-> <<>>]
    /\ parquet_exists = TRUE

InitCache ==
    /\ interactions = <<>>
    /\ cache = <<>>
    /\ ops = <<>>
    /\ mergeIn = <<>>
    /\ mergeOut = <<>>
    /\ cartOut = None
    /\ req = None
    /\ llm_cache = {}
    /\ catalog = [p \in Products |-> ProductName(p)]
    /\ client = FALSE
    /\ procs = <<>>
    /\ InitStore

\* one row appended to the interaction log
AppendEvent(ev) ==
    /\ Len(interactions) < MaxLog
    /\ interactions' = Append(interactions, ev)
    /\ ops' = Remember(ops, [kind |-> "append", ev |-> ev])
    /\ UNCHANGED <<storeVars, enrichVars, procs, cache, mergeIn, mergeOut, cartOut, req>>

\* one call of get_or_build_user_embedding(user_id, apply_time_decay, force=force)
CallGetOrBuild(user_id, apply_time_decay, force) ==
    \E loc_ok \in BOOLEAN :
    \E r \in {get_or_build_user_embedding(user_id, apply_time_decay, force,
                                          interactions, cache, loc_ok)} :
       /\ cache' = r.cache
       /\ ops' = Remember(ops,
                  [kind |-> "call", user_id |-> user_id,
                   apply_time_decay |-> apply_time_decay, force |-> force,
                   raised |-> r.raised, hit |-> r.hit, vec |-> r.vec,
                   last_event_ts |-> r.last_event_ts, cached_ts |-> r.cached_ts])
       /\ UNCHANGED <<storeVars, enrichVars, procs, interactions, mergeIn, mergeOut, cartOut, req>>

NextCache ==
    \/ \E ev \in AllEvents : AppendEvent(ev)
    \/ \E u \in Users, d \in BOOLEAN, f \in BOOLEAN : CallGetOrBuild(u, d, f)

SpecCache == InitCache /\ [][NextCache]_vars

----------------------------------------------------------------------------
(* Claims about the cache under sequential use (SpecCache) *)

\* two calls for the same user, one right after the other (so that no event
\* was appended between them), the first having returned a vector and the
\* second not forcing a recomputation
ConsecutiveCalls ==
    /\ LastOp.kind = "call"
    /\ PrevOp.kind = "call"
    /\ LastOp.user_id = PrevOp.user_id
    /\ PrevOp.raised = "none"
    /\ ~LastOp.force

\* C2: for every user with a non-empty interaction log, two consecutive calls
\* of get_or_build_user_embedding with no event appended between them return
\* the same vector, and the second call is a cache hit.
C2_SameVectorAndHit ==
    ConsecutiveCalls =>
        /\ LastOp.raised = "none"
        /\ LastOp.hit
        /\ LastOp.vec = PrevOp.vec

----------------------------------------------------------------------------
(* Staleness for one user: a longer log of one user's views, with more    *)
(* timestamps, appended in any order of timestamps.                       *)

StaleEvents ==
    {Event("U1", p, "view", t) : p \in EventProducts, t \in 1..MaxStaleTs}

AppendLate(ev) ==
    /\ Len(interactions) < MaxStaleLog
    /\ interactions' = Append(interactions, ev)
    /\ ops' = Remember(ops, [kind |-> "append", ev |-> ev])
    /\ UNCHANGED <<storeVars, enrichVars, procs, cache, mergeIn, mergeOut, cartOut, req>>

NextStale ==
    \/ \E ev \in StaleEvents : AppendLate(ev)
    \/ \E d \in BOOLEAN, f \in BOOLEAN : CallGetOrBuild("U1", d, f)

SpecStale == InitCache /\ [][NextStale]_vars

\* the timestamp of the user's cache row, 0 without one
EntryTs(cache_df, user_id) ==
    IF CachedRows(cache_df, user_id) = <<>> THEN 0
    ELSE to_datetime(CachedRows(cache_df, user_id)[1].last_event_ts)

\* the last operation appended, to this user's log, an event later than the
\* user's cached last_event_ts
LaterAppended(user_id) ==
    /\ LastOp.kind = "append"
    /\ LastOp.ev.user_id = user_id
    /\ CachedRows(cache, user_id) # <<>>
    /\ LastOp.ev.timestamp > EntryTs(cache, user_id)

\* this step is a call of get_or_build_user_embedding for the user
CallStep(user_id) ==
    /\ ops' # ops
    /\ LastOp'.kind = "call"
    /\ LastOp'.user_id = user_id

\* C3 as stated: if an event later than the cached last_event_ts is appended
\* to a user's log, the next call for that user recomputes (no cache hit) and
\* the entry's last_event_ts afterwards equals that new event's timestamp.
C3_EntryTsIsNewEvent ==
    [][\A u \in Users :
          (LaterAppended(u) /\ CallStep(u)) =>
              /\ ~LastOp'.hit
              /\ EntryTs(cache', u) = LastOp.ev.timestamp]_vars

\* What holds of the calls that return: after the append of a later event
\* the next call, if it does not raise, has recomputed (no cache hit) and
\* the entry's last_event_ts afterwards equals the latest timestamp in that
\* user's log, which is the new event's timestamp unless an event with a
\* later timestamp was appended before it.
ReturningCallStoresLatest ==
    [][\A u \in Users :
          (LaterAppended(u) /\ CallStep(u) /\ LastOp'.raised = "none") =>
              LET latest == MaxSeq(TimestampsOf(UserRows(interactions, u)))
              IN /\ ~LastOp'.hit
                 /\ LastOp'.raised = "none"
                 /\ CachedRows(cache', u) # <<>>
                 /\ EntryTs(cache', u) = latest
                 /\ latest >= LastOp.ev.timestamp
                 /\ (\A i \in 1..Len(interactions) :
                        interactions[i].user_id = u =>
                            interactions[i].timestamp <= LastOp.ev.timestamp)
                    => EntryTs(cache', u) = LastOp.ev.timestamp]_vars

\* a call without force that compared a cached timestamp, right after the
\* append of a later event, has recomputed and stored that event's
\* timestamp.
ReturningCallWitness ==
    /\ LastOp.kind = "call"
    /\ PrevOp.kind = "append"
    /\ ~LastOp.force
    /\ LastOp.cached_ts > 0
    /\ interactions[Len(interactions)].user_id = LastOp.user_id
    /\ interactions[Len(interactions)].timestamp > LastOp.cached_ts
    /\ ~LastOp.hit
    /\ EntryTs(cache, LastOp.user_id) = interactions[Len(interactions)].timestamp

----------------------------------------------------------------------------
(* The merge on arbitrary candidate lists: the four lists are drawn from  *)
(* bounded sets, then folded, sorted and truncated (run twice).           *)

MergePids == {"P1", "P2", "P3"}
MergeScores == {1, 2}

\* the candidate lists of one generator, of at most n candidates
CandLists(source_event, n) ==
    UNION {[1..k -> {Candidate(p, sc, source_event) :
                        p \in MergePids, sc \in MergeScores}] : k \in 0..n}

InitMerge ==
    /\ interactions = <<>>
    /\ cache = <<>>
    /\ ops = <<>>
    /\ \E v \in CandLists("view", MaxCand) :
       \E c \in CandLists("add_to_cart", MaxCand - Len(v)) :
       \E p \in CandLists("purchase", MaxCand - Len(v) - Len(c)) :
       \E f \in CandLists("profile", MaxCand - Len(v) - Len(c) - Len(p)) :
          mergeIn = [view |-> v, cart |-> c, purchase |-> p, profile |-> f]
    /\ mergeOut = <<>>
    /\ cartOut = None
    /\ req = None
    /\ llm_cache = {}
    /\ catalog = [p \in Products |-> ProductName(p)]
    /\ client = FALSE
    /\ procs = <<>>
    /\ InitStore

\* lines 36-61 of recommend_for_user on the lists of mergeIn
RunMerge ==
    /\ Len(mergeOut) < 2
    /\ mergeOut' = Append(mergeOut,
          Rank(FoldSources(mergeIn.view, mergeIn.cart,
                           mergeIn.purchase, mergeIn.profile)))
    /\ UNCHANGED <<storeVars, enrichVars, procs, interactions, cache, ops, mergeIn, cartOut, req>>

NextMerge == RunMerge

SpecMerge == InitMerge /\ [][NextMerge]_vars

----------------------------------------------------------------------------
(* Claims about the merge (SpecMerge) *)

\* the candidates in the order the merge sees them: view, cart, purchase, profile
MergeInputs ==
    mergeIn.view \o mergeIn.cart \o mergeIn.purchase \o mergeIn.profile

InputsOf(pid) == SelectSeq(MergeInputs, LAMBDA c : c.product_id = pid)

\* the highest score the product_id has in any input list
BestScore(pid) ==
    CHOOSE sc \in {InputsOf(pid)[i].score : i \in 1..Len(InputsOf(pid))} :
        \A i \in 1..Len(InputsOf(pid)) : InputsOf(pid)[i].score <= sc

\* where the product_id is first seen in the sequence of inputs
FirstSeen(pid) ==
    CHOOSE i \in 1..Len(MergeInputs) :
        /\ MergeInputs[i].product_id = pid
        /\ \A j \in 1..(i - 1) : MergeInputs[j].product_id # pid

\* the first input candidate of the product_id that carries its best score
FirstBest(pid) ==
    LET cs == InputsOf(pid)
        k == CHOOSE i \in 1..Len(cs) :
                /\ cs[i].score = BestScore(pid)
                /\ \A j \in 1..(i - 1) : cs[j].score # BestScore(pid)
    IN cs[k]

\* the generators that produce the product_id with the given score
Producers(pid, sc) ==
    {MergeInputs[i].source_event : i \in
        {j \in 1..Len(MergeInputs) : /\ MergeInputs[j].product_id = pid
                                     /\ MergeInputs[j].score = sc}}

\* C4: for all candidate lists, the output of the merge contains at most one
\* entry per product_id, and each entry's score is the maximum score that
\* product_id has in any of the input lists.
C4_OnePerProductWithMaxScore ==
    \A r \in 1..Len(mergeOut) :
        LET out == mergeOut[r]
        IN /\ \A i, j \in 1..Len(out) :
                 out[i].product_id = out[j].product_id => i = j
           /\ \A i \in 1..Len(out) :
                 /\ InputsOf(out[i].product_id) # <<>>
                 /\ out[i].score = BestScore(out[i].product_id)

\* C4's case: a product_id that two lists produce with different scores is in
\* the output.
C4_Witness ==
    /\ mergeOut # <<>>
    /\ \E i \in 1..Len(mergeOut[1]) :
          \E a, b \in 1..Len(MergeInputs) :
             /\ MergeInputs[a].product_id = mergeOut[1][i].product_id
             /\ MergeInputs[b].product_id = mergeOut[1][i].product_id
             /\ MergeInputs[a].source_event # MergeInputs[b].source_event
             /\ MergeInputs[a].score < MergeInputs[b].score

\* C6: the merge is deterministic: two runs on identical ordered generator
\* outputs give the identical ordered output, in which entries of equal score
\* are ordered by which product_id was first seen in the sequence view, cart,
\* purchase, profile (and entries of different score by score, descending).
C6_DeterministicTieOrder ==
    /\ Len(mergeOut) = 2 => mergeOut[1] = mergeOut[2]
    /\ \A r \in 1..Len(mergeOut) :
          LET out == mergeOut[r]
          IN \A i, j \in 1..Len(out) :
                i < j =>
                   \/ out[i].score > out[j].score
                   \/ /\ out[i].score = out[j].score
                      /\ FirstSeen(out[i].product_id) < FirstSeen(out[j].product_id)

\* C6's case: both runs are done and two entries tie, the one first seen
\* earlier having got its score from a later generator than the other.
C6_Witness ==
    /\ Len(mergeOut) = 2
    /\ \E i, j \in 1..Len(mergeOut[2]) :
          /\ i < j
          /\ mergeOut[2][i].score = mergeOut[2][j].score
          /\ mergeOut[2][i].source_event = "purchase"
          /\ mergeOut[2][j].source_event = "add_to_cart"

\* C7: when the same product_id is produced by two generators with equal
\* scores, the merge keeps the candidate (and its source_event) of the
\* generator that ran first; a later candidate replaces the stored one only
\* if its score is strictly higher.  So the entry kept for a product_id is
\* the first input candidate that carries its best score.
C7_FirstWriterWinsTies ==
    \A r \in 1..Len(mergeOut) :
        \A i \in 1..Len(mergeOut[r]) :
            mergeOut[r][i] = FirstBest(mergeOut[r][i].product_id)

\* C7's case: two generators produce a product_id with the same, best score,
\* and the output carries the source_event of the one that ran first.
C7_Witness ==
    /\ mergeOut # <<>>
    /\ \E i \in 1..Len(mergeOut[1]) :
          LET e == mergeOut[1][i]
          IN /\ Cardinality(Producers(e.product_id, e.score)) >= 2
             /\ e.source_event = FirstBest(e.product_id).source_event
             /\ e.source_event \in {"view", "add_to_cart", "purchase"}

\* a product_id ties at its best score between the purchase generator and
\* an earlier one
PurchaseTiesEarlier(pid) ==
    /\ InputsOf(pid) # <<>>
    /\ "purchase" \in Producers(pid, BestScore(pid))
    /\ Producers(pid, BestScore(pid)) \cap {"view", "add_to_cart"} # {}

\* C8 as stated: the purchase generator has priority when scores tie: if a
\* product_id is produced with the same score by the purchase generator and
\* by the view or cart generator, the merged entry carries source_event
\* "purchase".
C8_PurchaseWinsTies ==
    \A r \in 1..Len(mergeOut) :
        \A i \in 1..Len(mergeOut[r]) :
            PurchaseTiesEarlier(mergeOut[r][i].product_id) =>
                mergeOut[r][i].source_event = "purchase"

\* C8 as amended: the purchase generator has no priority over the generators
\* that run before it: on such a tie the merged entry carries the
\* source_event of the view generator, or of the cart generator when the view
\* generator does not produce that score; the purchase candidate wins a tie
\* only against the profile generator, which runs after it.
C8_EarlierGeneratorWinsTies ==
    \A r \in 1..Len(mergeOut) :
        \A i \in 1..Len(mergeOut[r]) :
            LET e == mergeOut[r][i]
                tied == Producers(e.product_id, BestScore(e.product_id))
            IN /\ PurchaseTiesEarlier(e.product_id) =>
                    e.source_event = IF "view" \in tied THEN "view"
                                     ELSE "add_to_cart"
               /\ (tied = {"purchase", "profile"}) => e.source_event = "purchase"

\* C8's case: purchase ties with the cart generator and the entry carries the
\* cart generator's source_event.
C8_Witness ==
    /\ mergeOut # <<>>
    /\ \E i \in 1..Len(mergeOut[1]) :
          /\ PurchaseTiesEarlier(mergeOut[1][i].product_id)
          /\ mergeOut[1][i].source_event = "add_to_cart"

----------------------------------------------------------------------------
(* The cart generator on its own: one user's log of cart adds and views,  *)
(* then recommend_cart_based on it.                                       *)

CartEvents ==
    {Event("U1", p, "add_to_cart", t) : p \in {"P1", "P2", "P3"}, t \in Timestamps}
    \cup {Event("U1", "P1", "view", t) : t \in Timestamps}

AppendCart(ev) ==
    /\ Len(interactions) < MaxCartLog
    /\ interactions' = Append(interactions, ev)
    /\ cartOut' = None
    /\ UNCHANGED <<storeVars, enrichVars, procs, cache, ops, mergeIn, mergeOut, req>>

\* recommend_cart_based(user_id, interactions_df, ...) on the log
CallCartBased(user_id) ==
    \E order \in SeedOrders(user_id, interactions, "add_to_cart") :
    \E r \in {recommend_cart_based(user_id, interactions, order)} :
       /\ cartOut' = [kind |-> "cart", user_id |-> user_id, recs |-> r.recs,
                      built |-> r.built, searches |-> r.searches,
                      seeds |-> r.seeds]
       /\ UNCHANGED <<storeVars, enrichVars, procs, interactions, cache, ops, mergeIn, mergeOut, req>>

NextCart ==
    \/ \E ev \in CartEvents : AppendCart(ev)
    \/ \E u \in Users : CallCartBased(u)

SpecCart == InitCache /\ [][NextCart]_vars

----------------------------------------------------------------------------
(* Claims about the cart generator (SpecCart) *)

CartRowsOf(user_id) ==
    SelectSeq(interactions,
              LAMBDA r : r.user_id = user_id /\ r.event_type = "add_to_cart")

\* C9: recommend_cart_based returns at most top_k candidates, all with
\* distinct product_ids, for any number of seeds (up to 3): collection across
\* all seeds stops once top_k distinct candidates have been gathered.
C9_AtMostTopK ==
    cartOut.kind = "cart" =>
        /\ Len(cartOut.recs) <= CartTopK
        /\ \A i, j \in 1..Len(cartOut.recs) :
              cartOut.recs[i].product_id = cartOut.recs[j].product_id => i = j

\* C10: for a user whose log contains no add_to_cart event (a user with only
\* view events included), recommend_cart_based returns the empty list, and
\* neither builds nor searches the index.
C10_NoCartEventsNoWork ==
    (cartOut.kind = "cart" /\ CartRowsOf(cartOut.user_id) = <<>>) =>
        /\ cartOut.recs = <<>>
        /\ ~cartOut.built
        /\ cartOut.searches = 0

\* C10's case: the call has returned for a user who has events, all views.
C10_Witness ==
    /\ cartOut.kind = "cart"
    /\ UserRows(interactions, cartOut.user_id) # <<>>
    /\ CartRowsOf(cartOut.user_id) = <<>>
    /\ cartOut.recs = <<>>

----------------------------------------------------------------------------
(* Requests: events are appended to the log and recommend_for_user is     *)
(* called, one request at a time.                                         *)

AppendForRequest(ev) ==
    /\ Len(interactions) < MaxLog
    /\ interactions' = Append(interactions, ev)
    /\ req' = None
    /\ UNCHANGED <<storeVars, enrichVars, procs, cache, ops, mergeIn, mergeOut, cartOut>>

Request(user_id) ==
    \E vo \in SeedOrders(user_id, interactions, "view") :
    \E co \in SeedOrders(user_id, interactions, "add_to_cart") :
    \E po \in SeedOrders(user_id, interactions, "purchase") :
    \E loc_ok \in BOOLEAN :
    \E r \in {recommend_for_user(user_id, interactions, cache, vo, co, po,
                                 loc_ok)} :
       /\ cache' = r.cache
       /\ req' = [kind |-> "request", user_id |-> user_id, raised |-> r.raised,
                  view_recs |-> r.view_recs, cart_recs |-> r.cart_recs,
                  purchase_recs |-> r.purchase_recs,
                  profile_recs |-> r.profile_recs, output |-> r.output]
       /\ UNCHANGED <<storeVars, enrichVars, procs, interactions, ops, mergeIn, mergeOut, cartOut>>

Next ==
    \/ \E ev \in AllEvents : AppendForRequest(ev)
    \/ \E u \in Users : Request(u)

Spec == InitCache /\ [][Next]_vars

----------------------------------------------------------------------------
(* Claims about requests (Spec) *)

\* C1: for a user with zero interaction events, recommend_for_user(user_id)
\* returns the empty list and raises no exception.
C1_EmptyListForNoEvents ==
    (req.kind = "request" /\ UserRows(interactions, req.user_id) = <<>>) =>
        /\ req.raised = "none"
        /\ req.output = <<>>

\* the candidates the four generators gave the request, in the fold's order
RequestInputs ==
    req.view_recs \o req.cart_recs \o req.purchase_recs \o req.profile_recs

\* the highest score among the request's candidates of the product_id
RequestBest(pid) ==
    MaxSeq(LET cs == SelectSeq(RequestInputs, LAMBDA c : c.product_id = pid)
           IN [i \in 1..Len(cs) |-> cs[i].score])

\* C5: after folding the four sources, the merged candidates are returned in
\* non-increasing score order and truncated to 5: the output has
\* min(5, number of distinct product_ids) entries and no omitted candidate
\* has a score strictly higher than a returned one.
C5_SortedAndTruncatedToFive ==
    (req.kind = "request" /\ req.raised = "none") =>
        LET out == req.output
        IN /\ \A i \in 1..(Len(out) - 1) : out[i].score >= out[i + 1].score
           /\ Len(out) = Min(5, Cardinality(Keys(RequestInputs)))
           /\ \A pid \in Keys(RequestInputs) \ Keys(out) :
                 \A i \in 1..Len(out) : RequestBest(pid) <= out[i].score

\* C5's case: a request whose generators gave more than five distinct
\* product_ids, so that the truncation leaves candidates out.
C5_Witness ==
    /\ req.kind = "request"
    /\ req.raised = "none"
    /\ Cardinality(Keys(RequestInputs)) > 5
    /\ Len(req.output) = 5
    /\ \E i \in 1..4 : req.output[i].score > req.output[i + 1].score

----------------------------------------------------------------------------
(* Requests over a log that may reference a product_id that is not in the *)
(* embedding dataset (SpecUnknown).                                       *)

UnknownProduct == "P9"

UnknownEvents ==
    {Event("U1", p, e, t) : p \in {"P1", UnknownProduct},
                            e \in {"view", "add_to_cart"}, t \in Timestamps}

AppendUnknown(ev) ==
    /\ Len(interactions) < MaxLog
    /\ interactions' = Append(interactions, ev)
    /\ req' = None
    /\ UNCHANGED <<storeVars, enrichVars, procs, cache, ops, mergeIn, mergeOut, cartOut>>

NextUnknown ==
    \/ \E ev \in UnknownEvents : AppendUnknown(ev)
    \/ \E u \in Users : Request(u)

SpecUnknown == InitCache /\ [][NextUnknown]_vars

\* C11: for any user and any interaction log over a loaded embedding dataset,
\* logs that reference a product_id absent from the dataset included, every
\* per-signal failure degrades locally and recommend_for_user returns a list
\* instead of raising (stated for users who have at least one event).
C11_RequestNeverRaises ==
    (req.kind = "request" /\ UserRows(interactions, req.user_id) # <<>>) =>
        req.raised = "none"

----------------------------------------------------------------------------
(* generate_llm_explanation and the enrichment of the ranked candidates   *)
(* (recommend_explain_llm.py, recommend_master.py lines 63-89).           *)
(* Explanation texts are tokens; none of them holds a product id, so      *)
(* _replace_ids_with_names leaves them as they are.                       *)

\* what client.generate_content may do: answer a JSON object, answer JSON
\* that is not an object, answer text that is not JSON, raise, time out
Outcomes == {"json", "not_object", "text", "error", "timeout"}

Placeholder == "Explanation temporarily unavailable."

\* the files of data/llm_cache for _cache_path(uid, pid)
CacheFiles(files, uid, pid) ==
    {f \in files : f.user_id = uid /\ f.product_id = pid}

\* load_from_cache: a missing file gives None, a file older than CACHE_TTL
\* is removed and gives None
load_from_cache(files, uid, pid) ==
    IF CacheFiles(files, uid, pid) = {}
    THEN [found |-> FALSE, files |-> files]
    ELSE LET f == CHOOSE f \in CacheFiles(files, uid, pid) : TRUE
         IN IF f.expired
            THEN [found |-> FALSE, files |-> files \ {f}]
            ELSE [found |-> TRUE, files |-> files,
                  explanation |-> f.explanation, evidence |-> f.evidence]

save_to_cache(files, uid, pid, data) ==
    (files \ CacheFiles(files, uid, pid)) \cup
        {[user_id |-> uid, product_id |-> pid, expired |-> FALSE,
          explanation |-> data.explanation, evidence |-> data.evidence]}

\* the event types user_data.iloc[0] may have after the sort by timestamp,
\* newest first ("view" for a user without rows)
RecentActions(interactions_df, user_id) ==
    LET user_data == UserRows(interactions_df, user_id)
    IN IF user_data = <<>> THEN {"view"}
       ELSE {user_data[i].event_type : i \in
                {j \in 1..Len(user_data) :
                    user_data[j].timestamp = MaxSeq(TimestampsOf(user_data))}}

\* (mutant) a failed call is answered like an offline explanation
Parsed_NoPlaceholder(has_client, outcome, recent_action) ==
    IF ~has_client
    THEN [explanation |-> "mock", evidence |-> <<recent_action>>]
    ELSE CASE outcome = "json" -> [explanation |-> "llm", evidence |-> <<"llm">>]
           [] outcome = "text" -> [explanation |-> "text", evidence |-> <<>>]
           [] OTHER -> [explanation |-> "mock", evidence |-> <<recent_action>>]

\* step 5: parsed, from the collaborator's answer or the offline text
Parsed(has_client, outcome, recent_action) ==
    IF ~has_client
    THEN [explanation |-> "mock", evidence |-> <<recent_action>>]
    ELSE CASE outcome = "json" -> [explanation |-> "llm", evidence |-> <<"llm">>]
           [] outcome = "text" -> [explanation |-> "text", evidence |-> <<>>]
           [] OTHER -> [explanation |-> Placeholder, evidence |-> <<>>]

generate_llm_explanation(user_id, pid, files, has_client, outcome, recent_action) ==
    LET cached == load_from_cache(files, user_id, pid)
    IN IF cached.found
       THEN [raised |-> "none", call |-> "cached", files |-> cached.files,
             explanation |-> cached.explanation, evidence |-> cached.evidence]
       ELSE IF has_client /\ outcome = "not_object"
       THEN [raised |-> "AttributeError", call |-> outcome,
             files |-> cached.files, explanation |-> "", evidence |-> <<>>]
       ELSE LET parsed == Parsed(has_client, outcome, recent_action)
            IN [raised |-> "none",
                call |-> IF has_client THEN outcome ELSE "mock",
                files |-> save_to_cache(cached.files, user_id, pid, parsed),
                explanation |-> parsed.explanation,
                evidence |-> parsed.evidence]

\* lines 64-74: the loop over the ranked candidates
RECURSIVE Explain(_, _, _, _, _, _, _, _)
Explain(user_id, recs, files, has_client, outcomes, recent_action, done, calls) ==
    IF recs = <<>>
    THEN [raised |-> "none", final_output |-> done, calls |-> calls,
          files |-> files]
    ELSE LET e == generate_llm_explanation(user_id, Head(recs).product_id,
                      files, has_client, Head(outcomes), recent_action)
         IN IF e.raised # "none"
            THEN [raised |-> e.raised, final_output |-> done,
                  calls |-> Append(calls, e.call), files |-> e.files]
            ELSE Explain(user_id, Tail(recs), e.files, has_client,
                         Tail(outcomes), recent_action,
                         Append(done, [product_id |-> Head(recs).product_id,
                                       score |-> Head(recs).score,
                                       source_event |-> Head(recs).source_event,
                                       explanation |-> e.explanation,
                                       evidence |-> e.evidence]),
                         Append(calls, e.call))

\* row[0] if row and row[0] else "Unknown Product"
LookupName(db, pid) ==
    IF pid \in DOMAIN db /\ db[pid] # EmptyName THEN db[pid] ELSE Sentinel

WithName(rec, name) ==
    [product_id |-> rec.product_id, score |-> rec.score,
     source_event |-> rec.source_event, explanation |-> rec.explanation,
     evidence |-> rec.evidence, product_name |-> name]

\* lines 76-87: fail_at = 0, no database error; fail_at = k, the k-th query
\* raises; fail_at = -1, sqlite3.connect raises.  On an error every record
\* gets the sentinel.
attach_names(final_output, db, fail_at) ==
    IF fail_at = 0
    THEN [i \in 1..Len(final_output) |->
            WithName(final_output[i], LookupName(db, final_output[i].product_id))]
    ELSE [i \in 1..Len(final_output) |-> WithName(final_output[i], Sentinel)]

----------------------------------------------------------------------------
(* Whole requests, enrichment included (SpecEnrich): the log is fixed,    *)
(* the collaborator and the catalog database answer as they please.       *)

MaxFailAt == 2      \* a failing catalog query is one of the first MaxFailAt
MaxOdd == 1         \* collaborator calls of a request not answering an object

\* what the collaborator does at each of its n calls of one request
OutcomeSeqs(n) ==
    UNION {{[i \in 1..n |-> IF i \in S THEN g[i] ELSE "json"] :
                g \in [S -> Outcomes \ {"json"}]} :
           S \in {T \in SUBSET (1..n) : Cardinality(T) <= MaxOdd}}

\* the catalog with every product, and one where P4 has an empty name and
\* P5, P6, P7 have no row
Catalogs ==
    {[pid \in Products |-> ProductName(pid)],
     [pid \in {"P1", "P2", "P3", "P4"} |->
        IF pid = "P4" THEN EmptyName ELSE ProductName(pid)]}

EnrichLogs ==
    {<<Event("U1", "P1", "view", 1)>>, <<Event("U1", "P2", "purchase", 1)>>}

InitEnrich ==
    /\ interactions \in EnrichLogs
    /\ cache = <<>>
    /\ ops = <<>>
    /\ mergeIn = <<>>
    /\ mergeOut = <<>>
    /\ cartOut = None
    /\ req = None
    /\ llm_cache = {}
    /\ catalog \in Catalogs
    /\ client \in BOOLEAN
    /\ procs = <<>>
    /\ InitStore

\* recommend_for_user(user_id), lines 21-89
FullRequest(user_id) ==
    \E vo \in SeedOrders(user_id, interactions, "view") :
    \E co \in SeedOrders(user_id, interactions, "add_to_cart") :
    \E po \in SeedOrders(user_id, interactions, "purchase") :
    \E loc_ok \in BOOLEAN :
    \E r \in {recommend_for_user(user_id, interactions, cache, vo, co, po,
                                 loc_ok)} :
       /\ cache' = r.cache
       /\ IF r.raised # "none"
          THEN /\ req' = [kind |-> "response", user_id |-> user_id,
                          raised |-> r.raised, ranked |-> <<>>, calls |-> <<>>,
                          fail_at |-> 0, output |-> <<>>]
               /\ UNCHANGED llm_cache
          ELSE \E outcomes \in IF client THEN OutcomeSeqs(Len(r.output))
                               ELSE {[i \in 1..Len(r.output) |-> "json"]} :
               \E recent_action \in RecentActions(interactions, user_id) :
               \E fail_at \in -1..Min(MaxFailAt, Len(r.output)) :
               \E e \in {Explain(user_id, r.output, llm_cache, client, outcomes,
                                 recent_action, <<>>, <<>>)} :
                  /\ llm_cache' = e.files
                  /\ req' = [kind |-> "response", user_id |-> user_id,
                             raised |-> e.raised, ranked |-> r.output,
                             calls |-> e.calls,
                             fail_at |-> IF e.raised = "none" THEN fail_at ELSE 0,
                             output |-> IF e.raised = "none"
                                        THEN attach_names(e.final_output,
                                                          catalog, fail_at)
                                        ELSE <<>>]
       /\ UNCHANGED <<storeVars, interactions, ops, mergeIn, mergeOut, cartOut,
                      catalog, client, procs>>

\* CACHE_TTL goes by: every file of data/llm_cache is older than seven days
TtlPassed ==
    /\ llm_cache # {}
    /\ \E f \in llm_cache : ~f.expired
    /\ llm_cache' = {[f EXCEPT !.expired = TRUE] : f \in llm_cache}
    /\ UNCHANGED <<storeVars, interactions, cache, ops, mergeIn, mergeOut, cartOut, req,
                   catalog, client, procs>>

NextEnrich ==
    \/ \E u \in Users : FullRequest(u)
    \/ TtlPassed

SpecEnrich == InitEnrich /\ [][NextEnrich]_vars

----------------------------------------------------------------------------
(* Claims about the enrichment (SpecEnrich) *)

FailedCalls == {i \in 1..Len(req.calls) : req.calls[i] \in {"error", "timeout"}}

\* C12: when the explanation collaborator call fails (error or timeout) for
\* a candidate, generate_llm_explanation returns the neutral placeholder with
\* empty evidence, and recommend_for_user still returns every ranked
\* candidate, in rank order, with explanation and evidence attached (no call
\* of the request having answered JSON that is not an object).
C12_PlaceholderOnFailure ==
    (/\ req.kind = "response"
     /\ FailedCalls # {}
     /\ \A i \in 1..Len(req.calls) : req.calls[i] # "not_object") =>
        /\ req.raised = "none"
        /\ Len(req.output) = Len(req.ranked)
        /\ \A i \in 1..Len(req.output) :
              /\ req.output[i].product_id = req.ranked[i].product_id
              /\ {"explanation", "evidence"} \subseteq DOMAIN req.output[i]
              /\ i \in FailedCalls =>
                    /\ req.output[i].explanation = Placeholder
                    /\ req.output[i].evidence = <<>>

\* C12's case: a request of five candidates, one of whose collaborator calls
\* timed out or raised, has returned.
C12_Witness ==
    /\ req.kind = "response"
    /\ req.raised = "none"
    /\ FailedCalls # {}
    /\ Len(req.output) = 5

\* the catalog query of the i-th record ran without a database error and
\* found a row with a name
LookupSucceeded(i) ==
    /\ req.fail_at = 0 \/ req.fail_at > i
    /\ req.output[i].product_id \in DOMAIN catalog
    /\ catalog[req.output[i].product_id] # EmptyName

\* C13: failure to resolve a product's display name never raises: every
\* returned record has a product_name, which is the catalog name when the
\* lookup for that product succeeded and 'Unknown Product' otherwise.
C13_NameOrSentinel ==
    (req.kind = "response" /\ req.raised = "none") =>
        \A i \in 1..Len(req.output) :
            /\ "product_name" \in DOMAIN req.output[i]
            /\ req.output[i].product_name =
                  IF LookupSucceeded(i)
                  THEN catalog[req.output[i].product_id]
                  ELSE Sentinel

----------------------------------------------------------------------------
(* Claims about the profile generator (Spec) *)

\* the product_ids the view, cart and purchase generators gave the request
PriorKeys == Keys(req.view_recs \o req.cart_recs \o req.purchase_recs)

\* C14: recommend_profile_based never returns a product_id of the
\* seen_products set passed to it, and returns at most top_k candidates (for
\* the request's own set and, on the user's cached vector, for every set of
\* products); so in recommend_for_user a profile-sourced candidate never
\* collides with or replaces a candidate of the view, cart or purchase
\* generators.
C14_ProfileExcludesSeen ==
    (req.kind = "request" /\ req.raised = "none") =>
        /\ Len(req.profile_recs) <= ProfileTopK
        /\ \A i \in 1..Len(req.profile_recs) :
              req.profile_recs[i].product_id \notin PriorKeys
        /\ \A i \in 1..Len(req.output) :
              req.output[i].source_event = "profile"
                 <=> req.output[i].product_id \notin PriorKeys
        /\ \A row \in {cache[i] : i \in 1..Len(cache)} :
           \A results \in {search(FaissIndex, normalize_L2(F32(row.embedding)),
                                  ProfileTopK * 2)} :
           \A seen_products \in SUBSET Products :
           \A recs \in {ScanProfile(results, seen_products, <<>>, ProfileTopK)} :
              /\ Len(recs) <= ProfileTopK
              /\ \A i \in 1..Len(recs) : recs[i].product_id \notin seen_products

\* C14's case: a request where the earlier generators produced candidates
\* and the profile generator, given their product_ids, produced others.
C14_Witness ==
    /\ req.kind = "request"
    /\ req.raised = "none"
    /\ PriorKeys # {}
    /\ req.profile_recs # <<>>
    /\ \E i \in 1..Len(req.output) : req.output[i].source_event = "profile"
    /\ \E i \in 1..Len(req.output) : req.output[i].source_event # "profile"

----------------------------------------------------------------------------
(* Concurrent calls of get_or_build_user_embedding (SpecRace): two        *)
(* callers, each call in three steps: the log is read (lines 101-107),    *)
(* the cache is read and tested and the vector recomputed (lines          *)
(* 110-126), the cache is written (lines 129-140).  Events are appended   *)
(* between the steps.                                                     *)

MaxRaceLog == 2     \* rows in the interaction log
MaxRuns == 2        \* calls of each caller

Callers == {1, 2}

RaceEvents == {Event(u, p, "view", t) : u \in Users, p \in EventProducts,
                                        t \in Timestamps}

IdleCaller ==
    [pc |-> "idle", user_id |-> "", interactions_df |-> <<>>,
     cache_df |-> <<>>, rec |-> None, raised |-> "none", hit |-> FALSE,
     raced |-> FALSE, runs |-> 0]

InitRace ==
    /\ interactions = <<>>
    /\ cache = <<>>
    /\ ops = <<>>
    /\ mergeIn = <<>>
    /\ mergeOut = <<>>
    /\ cartOut = None
    /\ req = None
    /\ llm_cache = {}
    /\ catalog = [p \in Products |-> ProductName(p)]
    /\ client = FALSE
    /\ procs = [c \in Callers |-> IdleCaller]
    /\ InitStore

AppendRace(ev) ==
    /\ Len(interactions) < MaxRaceLog
    /\ interactions' = Append(interactions, ev)
    /\ UNCHANGED <<storeVars, enrichVars, cache, ops, mergeIn, mergeOut, cartOut, req, procs>>

\* get_or_build_user_embedding(user_id) is called
StartCall(c, user_id) ==
    /\ procs[c].pc \in {"idle", "done"}
    /\ procs[c].runs < MaxRuns
    /\ procs' = [procs EXCEPT ![c] =
                    [IdleCaller EXCEPT !.pc = "read_log", !.user_id = user_id,
                                       !.runs = procs[c].runs + 1]]
    /\ UNCHANGED <<storeVars, enrichVars, interactions, cache, ops, mergeIn, mergeOut,
                   cartOut, req>>

\* lines 101-107: the log is read; no row of the user raises ValueError
ReadLog(c) ==
    /\ procs[c].pc = "read_log"
    /\ procs' = [procs EXCEPT ![c] =
          IF UserRows(interactions, procs[c].user_id) = <<>>
          THEN [@ EXCEPT !.pc = "done", !.raised = "ValueError"]
          ELSE [@ EXCEPT !.pc = "read_cache", !.interactions_df = interactions]]
    /\ UNCHANGED <<storeVars, enrichVars, interactions, cache, ops, mergeIn, mergeOut,
                   cartOut, req>>

\* lines 110-126: the cache is read; a fresh row is returned, otherwise the
\* vector is recomputed from the log read before
ReadCache(c) ==
    /\ procs[c].pc = "read_cache"
    /\ LET user_id == procs[c].user_id
           user_df == UserRows(procs[c].interactions_df, user_id)
           last_event_ts == MaxSeq(TimestampsOf(user_df))
           cached_row == CachedRows(cache, user_id)
       IN IF cached_row # <<>> /\ CacheFresh(cached_row[1], last_event_ts)
          THEN procs' = [procs EXCEPT ![c] = [@ EXCEPT !.pc = "done", !.hit = TRUE]]
          ELSE \E built \in {compute_user_embedding(user_id,
                                 procs[c].interactions_df, TRUE)} :
                 procs' = [procs EXCEPT ![c] =
                    IF built.raised # "none"
                    THEN [@ EXCEPT !.pc = "done", !.raised = built.raised]
                    ELSE [@ EXCEPT !.pc = "write", !.cache_df = cache,
                            !.rec = MissRecord(user_id, built.vec, last_event_ts)]]
    /\ UNCHANGED <<storeVars, enrichVars, interactions, cache, ops, mergeIn, mergeOut,
                   cartOut, req>>

\* lines 129-140: the frame read before is updated and written over the file
WriteCache(c) ==
    /\ procs[c].pc = "write"
    /\ \E loc_ok \in BOOLEAN :
          IF ReplacesRow(procs[c].cache_df, procs[c].user_id) /\ ~loc_ok
          THEN /\ procs' = [procs EXCEPT ![c] =
                              [@ EXCEPT !.pc = "done", !.raised = LocError,
                                        !.cache_df = <<>>]]
               /\ UNCHANGED cache
          ELSE /\ cache' = UpsertCache(procs[c].cache_df, procs[c].rec)
               /\ procs' = [procs EXCEPT ![c] =
                     [@ EXCEPT !.pc = "done", !.cache_df = <<>>,
                               !.raced = \E d \in Callers \ {c} :
                                            /\ procs[d].pc = "write"
                                            /\ procs[d].user_id = procs[c].user_id]]
    /\ UNCHANGED <<storeVars, enrichVars, interactions, ops, mergeIn, mergeOut, cartOut, req>>

NextRace ==
    \/ \E ev \in RaceEvents : AppendRace(ev)
    \/ \E c \in Callers, u \in Users : StartCall(c, u)
    \/ \E c \in Callers : ReadLog(c)
    \/ \E c \in Callers : ReadCache(c)
    \/ \E c \in Callers : WriteCache(c)

SpecRace == InitRace /\ [][NextRace]_vars

\* both callers have finished calls for the same user that missed the cache
\* and wrote it
BothMissed(u) ==
    \A c \in Callers :
        /\ procs[c].pc = "done"
        /\ procs[c].user_id = u
        /\ procs[c].raised = "none"
        /\ ~procs[c].hit

\* C15: under every interleaving of two concurrent calls for the same user
\* that both miss the cache, once both have finished the cache holds exactly
\* one entry for that user, and the entry keeps the staleness invariant: it
\* is the vector one of the calls computed from the log it read, with that
\* log's maximum timestamp, so a later call takes it for fresh only if the
\* log holds no later event of the user.
C15_RaceKeepsOneValidEntry ==
    \A u \in Users :
        BothMissed(u) =>
            /\ Len(CachedRows(cache, u)) = 1
            /\ \E c \in Callers :
                  LET snapshot == procs[c].interactions_df
                  IN CachedRows(cache, u)[1] =
                        MissRecord(u, compute_user_embedding(u, snapshot, TRUE).vec,
                                   MaxSeq(TimestampsOf(UserRows(snapshot, u))))
            /\ LET latest == MaxSeq(TimestampsOf(UserRows(interactions, u)))
               IN CacheFresh(CachedRows(cache, u)[1], latest) =>
                     to_datetime(CachedRows(cache, u)[1].last_event_ts) = latest

\* C15's case: two calls for the same user had both read the cache and
\* missed before either wrote, on different logs, and both have written.
C15_Witness ==
    \E u \in Users :
        /\ BothMissed(u)
        /\ \E c \in Callers : procs[c].raced
        /\ procs[1].interactions_df # procs[2].interactions_df

----------------------------------------------------------------------------
(* One request in two steps (SpecSnapshot): recommend_for_user reads the  *)
(* log and runs the view, cart and purchase generators (lines 31-54);     *)
(* then recommend_profile_based calls get_or_build_user_embedding, which  *)
(* reads the log file itself (lines 57-61).  Events are appended between. *)

SnapshotEvents ==
    {Event("U1", p, e, t) : p \in EventProducts, e \in {"view", "add_to_cart"},
                            t \in Timestamps}

AppendSnapshot(ev) ==
    /\ Len(interactions) < MaxLog
    /\ interactions' = Append(interactions, ev)
    /\ UNCHANGED <<storeVars, enrichVars, procs, cache, ops, mergeIn, mergeOut, cartOut, req>>

\* lines 31-54
RequestBegin(user_id) ==
    /\ req.kind # "running"
    /\ \E vo \in SeedOrders(user_id, interactions, "view") :
       \E co \in SeedOrders(user_id, interactions, "add_to_cart") :
       \E po \in SeedOrders(user_id, interactions, "purchase") :
          req' = [kind |-> "running", user_id |-> user_id,
                  interactions_df |-> interactions,
                  view_recs |-> recommend_view_based(user_id, interactions, vo),
                  cart_recs |-> recommend_cart_based(user_id, interactions, co).recs,
                  purchase_recs |->
                      recommend_purchase_based(user_id, interactions, po)]
    /\ UNCHANGED <<storeVars, enrichVars, procs, interactions, cache, ops, mergeIn,
                   mergeOut, cartOut>>

\* lines 57-61; profile_df is the log get_or_build_user_embedding read
RequestProfile ==
    /\ req.kind = "running"
    /\ \E loc_ok \in BOOLEAN :
       \E built \in {get_or_build_user_embedding(req.user_id, TRUE, FALSE,
                                                 interactions, cache, loc_ok)} :
          /\ cache' = built.cache
          /\ req' = [kind |-> "finished", user_id |-> req.user_id,
                     interactions_df |-> req.interactions_df,
                     profile_df |-> interactions,
                     raised |-> built.raised, hit |-> built.hit,
                     output |->
                        IF built.raised # "none" THEN <<>>
                        ELSE Rank(FoldSources(req.view_recs, req.cart_recs,
                                req.purchase_recs,
                                recommend_profile_based(built.vec,
                                    Keys(req.view_recs \o req.cart_recs
                                         \o req.purchase_recs))))]
    /\ UNCHANGED <<storeVars, enrichVars, procs, interactions, ops, mergeIn, mergeOut,
                   cartOut>>

NextSnapshot ==
    \/ \E ev \in SnapshotEvents : AppendSnapshot(ev)
    \/ \E u \in Users : RequestBegin(u)
    \/ RequestProfile

SpecSnapshot == InitCache /\ [][NextSnapshot]_vars

\* C16: within one recommend_for_user request all generators observe the
\* same snapshot of the interaction log: if events are appended to the stored
\* log while the request runs, the profile generator still works on the same
\* events of the user as the view, cart and purchase generators.
C16_OneSnapshotPerRequest ==
    req.kind = "finished" =>
        UserRows(req.profile_df, req.user_id)
            = UserRows(req.interactions_df, req.user_id)

----------------------------------------------------------------------------
(* Frame claims about get_or_build_user_embedding (SpecCache) *)

HasNoEvents(user_id) ==
    \A i \in 1..Len(interactions) : interactions[i].user_id # user_id

\* the rows of the other users, in file order
OtherRows(cache_df, user_id) ==
    SelectSeq(cache_df, LAMBDA r : r.user_id # user_id)

\* C17: get_or_build_user_embedding for a user with an empty interaction
\* history fails with ValueError before touching the cache: the persisted
\* cache is the same after the failed call as before it.
C17_NoEventsLeavesCache ==
    [][\A u \in Users :
          (CallStep(u) /\ HasNoEvents(u)) =>
              /\ LastOp'.raised = "ValueError"
              /\ cache' = cache]_vars

\* C17's case: the call has failed for a user without events while the
\* cache held another user's entry.
C17_Witness ==
    /\ LastOp.kind = "call"
    /\ LastOp.raised = "ValueError"
    /\ HasNoEvents(LastOp.user_id)
    /\ cache # <<>>

\* C18: a cache miss upserts by user_id: the cache holds at most one entry
\* per user_id; a miss for a user with an entry replaces that entry's vector
\* and last_event_ts, a miss for an absent user appends one entry, and in
\* both cases the entries of all other users are left unchanged.
C18_MissUpserts ==
    [][/\ \A u \in Users : Len(CachedRows(cache', u)) <= 1
       /\ \A u \in Users :
             (CallStep(u) /\ ~HasNoEvents(u) /\ ~LastOp'.hit) =>
                 LET latest == MaxSeq(TimestampsOf(UserRows(interactions, u)))
                     vec == compute_user_embedding(u, interactions,
                                LastOp'.apply_time_decay).vec
                 IN /\ CachedRows(cache', u) = <<MissRecord(u, vec, latest)>>
                    /\ CachedRows(cache, u) = <<>> =>
                          cache' = Append(cache, MissRecord(u, vec, latest))
                    /\ OtherRows(cache', u) = OtherRows(cache, u)]_vars

\* C19: on a cache hit (entry exists, force is false, and its last_event_ts
\* >= the user's current maximum event timestamp) the stored vector is
\* returned without recomputing and without writing the cache; with
\* force=True the call always recomputes and overwrites the entry, even
\* when the entry is fresh.
C19_HitReadsForceOverwrites ==
    [][\A u \in Users :
          (CallStep(u) /\ ~HasNoEvents(u)) =>
              LET latest == MaxSeq(TimestampsOf(UserRows(interactions, u)))
                  entry == CachedRows(cache, u)
                  fresh == entry # <<>> /\ EntryTs(cache, u) >= latest
              IN /\ (fresh /\ ~LastOp'.force) =>
                        /\ LastOp'.hit
                        /\ LastOp'.vec = HitVector(entry[1])
                        /\ cache' = cache
                 /\ LastOp'.force =>
                        /\ ~LastOp'.hit
                        /\ LastOp'.raised = "none"
                        /\ CachedRows(cache', u) =
                              <<MissRecord(u, LastOp'.vec, latest)>>]_vars

----------------------------------------------------------------------------
(* Seeds among the cart generator's candidates (SpecCart) *)

\* C20: no candidate returned by recommend_cart_based is one of the seed
\* products used in that call: each of the (up to 3) seed product_ids is
\* excluded from the whole result, not only from the neighbours retrieved
\* for that same seed.
C20_NoSeedAmongCandidates ==
    cartOut.kind = "cart" =>
        \A i \in 1..Len(cartOut.recs) :
        \A j \in 1..Len(cartOut.seeds) :
            cartOut.recs[i].product_id # cartOut.seeds[j]

----------------------------------------------------------------------------
(* The probabilities that rank the cart seeds (SpecCart) *)

\* the probability column of the user's add_to_cart rows, as
\* recommend_cart_based ranks them
CartFrame(user_id) ==
    SelectSeq(compute_event_probabilities(
                  SelectSeq(interactions, LAMBDA r : r.user_id = user_id)),
              LAMBDA r : r.event_type = "add_to_cart")

\* the orders of a frame's rows that are descending in timestamp
MostRecentFirst(df) ==
    {o \in [1..Len(df) -> 1..Len(df)] :
        /\ \A i, j \in 1..Len(df) : o[i] = o[j] => i = j
        /\ \A i, j \in 1..Len(df) :
              i < j => df[o[i]].timestamp >= df[o[j]].timestamp}

\* C21: in recommend_cart_based the probabilities that rank the seeds sum to
\* 1 across the user's add_to_cart events, and the seeds are the (up to) 3
\* cart events of highest probability, which are the 3 most recent ones.
C21_CartProbabilitiesSumToOne ==
    (cartOut.kind = "cart" /\ CartRowsOf(cartOut.user_id) # <<>>) =>
        \A df \in {CartFrame(cartOut.user_id)} :
           /\ SumSeq([i \in 1..Len(df) |-> df[i].probability.num])
                  = df[1].probability.den
           /\ \E o \in MostRecentFirst(df) :
                 cartOut.seeds =
                    [i \in 1..Min(SeedCount, Len(df)) |-> df[o[i]].product_id]

\* the part of C21 that is about the choice of seeds alone
C21_SeedsAreMostRecent ==
    (cartOut.kind = "cart" /\ CartRowsOf(cartOut.user_id) # <<>>) =>
        \A df \in {CartFrame(cartOut.user_id)} :
           \E o \in MostRecentFirst(df) :
              cartOut.seeds =
                 [i \in 1..Min(SeedCount, Len(df)) |-> df[o[i]].product_id]

----------------------------------------------------------------------------
(* Normalisation before indexing and search: the generators of one request  *)
(* share the array load_product_embeddings returned, and faiss.normalize_L2 *)
(* writes into the array it is given.                                       *)

\* (mutant) a cast that hands back the memory of its argument
astype_float32_Shared(x) == [data |-> F32(x), shares |-> TRUE]

\* x.astype(np.float32): the values as float32 in a new array (numpy copies
\* unless copy=False is given); shares: the result is the memory of x
astype_float32(x) == [data |-> F32(x), shares |-> FALSE]

\* a = x.astype(np.float32); faiss.normalize_L2(a): a afterwards, and what
\* the array x holds afterwards
NormalizedCast(x) ==
    LET a == astype_float32(x)
        out == normalize_L2(a.data)
    IN [out |-> out, held |-> IF a.shares THEN out ELSE x]

\* build_faiss_index(embeddings): the rows added to the index, and the
\* caller's array afterwards
BuildIndex(embeddings) ==
    [index |-> [i \in 1..Len(embeddings) |-> NormalizedCast(embeddings[i]).out],
     embeddings |-> [i \in 1..Len(embeddings) |-> NormalizedCast(embeddings[i]).held]]

\* the loop of recommend_cart_based over the seeds: for a known seed, vec is
\* cast from its row, normalised, and searched for in the index
RECURSIVE SeedQueries(_, _, _, _)
SeedQueries(seeds, index, embeddings, log) ==
    IF seeds = <<>> THEN [embeddings |-> embeddings, log |-> log]
    ELSE IF Head(seeds) \notin Products
    THEN SeedQueries(Tail(seeds), index, embeddings, log)
    ELSE LET row == product_id_to_index(Head(seeds))
             vec == NormalizedCast(embeddings[row])
         IN SeedQueries(Tail(seeds), index,
                [embeddings EXCEPT ![row] = vec.held],
                Append(log, [generator |-> "add_to_cart", query |-> vec.out,
                             index |-> index, k |-> CartTopK * 3]))

\* recommend_master.py line 23: the array is loaded for a request
LoadEmbeddings ==
    /\ searched # <<>>
    /\ product_matrix' = product_embeddings
    /\ searched' = <<>>
    /\ UNCHANGED <<enrichVars, procs, interactions, cache, ops, mergeIn,
                   mergeOut, cartOut, req, sqlite_db, parquet_exists>>

Ran(generator) == \E i \in 1..Len(searched) : searched[i].generator = generator

\* recommend_cart_based on the shared array
SearchCart(user_id) ==
    /\ ~Ran("add_to_cart")
    /\ \E order \in SeedOrders(user_id, interactions, "add_to_cart") :
       \E gen \in {SeedGenerator(user_id, interactions, "add_to_cart",
                                 "add_to_cart", CartTopK, order)} :
          /\ gen.built
          /\ \E built \in {BuildIndex(product_matrix)} :
             \E run \in {SeedQueries(gen.seeds, built.index, built.embeddings, <<>>)} :
                /\ product_matrix' = run.embeddings
                /\ searched' = searched \o run.log
    /\ UNCHANGED <<enrichVars, procs, interactions, cache, ops, mergeIn,
                   mergeOut, cartOut, req, sqlite_db, parquet_exists>>

\* recommend_profile_based on the shared array
SearchProfile(user_id) ==
    /\ ~Ran("profile")
    /\ \E loc_ok \in BOOLEAN :
       \E r \in {get_or_build_user_embedding(user_id, TRUE, FALSE,
                                             interactions, cache, loc_ok)} :
          /\ cache' = r.cache
          /\ IF r.raised # "none"
             THEN UNCHANGED <<product_matrix, searched>>
             ELSE \E built \in {BuildIndex(product_matrix)} :
                     /\ product_matrix' = built.embeddings
                     /\ searched' = Append(searched,
                           [generator |-> "profile",
                            query |-> NormalizedCast(r.vec).out,
                            index |-> built.index, k |-> ProfileTopK * 2])
    /\ UNCHANGED <<enrichVars, procs, interactions, ops, mergeIn,
                   mergeOut, cartOut, req, sqlite_db, parquet_exists>>

NextSearch ==
    \/ \E ev \in CartEvents : AppendCart(ev)
    \/ LoadEmbeddings
    \/ \E u \in Users : SearchCart(u)
    \/ \E u \in Users : SearchProfile(u)

SpecSearch == InitCache /\ [][NextSearch]_vars

\* a vector of length 1, to the precision normalize_L2 is computed with
IsUnit(v) ==
    /\ InnerProduct(v, v) >= Unit * Unit - (Unit * Unit) \div 20
    /\ InnerProduct(v, v) <= Unit * Unit + (Unit * Unit) \div 20

\* C22: every similarity search is issued with an L2-normalised query
\* against an index built from L2-normalised vectors, and neither the
\* normalisation of the query nor the building of the index modifies the
\* product_embeddings array the generators share.
C22_NormalizedSearchesLeaveMatrix ==
    /\ product_matrix = product_embeddings
    /\ \A i \in 1..Len(searched) :
          /\ IsUnit(searched[i].query)
          /\ \A j \in 1..Len(searched[i].index) : IsUnit(searched[i].index[j])

\* C22's case: the cart generator and the profile generator have both
\* searched an index built from the array, whose rows are not of length 1.
C22_Witness ==
    /\ \E i \in 1..Len(searched) : searched[i].generator = "add_to_cart"
    /\ \E i \in 1..Len(searched) : searched[i].generator = "profile"
    /\ \E j \in 1..Len(product_matrix) : ~IsUnit(product_matrix[j])

----------------------------------------------------------------------------
(* What a cache hit returns (SpecStale, SpecCache) *)

\* the last operation is a call that returned the cached vector
ReturnedCached ==
    /\ LastOp.kind = "call"
    /\ LastOp.raised = "none"
    /\ LastOp.hit

\* C23: whenever get_or_build_user_embedding returns a cached vector, that
\* vector equals the one a recomputation from the user's current log would
\* produce (here: as float32, and under either setting of apply_time_decay),
\* after any appends, those with a timestamp equal to or earlier than the
\* cached last_event_ts included.
C23_HitEqualsRecomputation ==
    ReturnedCached =>
        \E d \in BOOLEAN :
           LastOp.vec = F32(compute_user_embedding(LastOp.user_id,
                                                   interactions, d).vec)

\* Events far enough apart in time, on products different enough, for the
\* decayed and the undecayed average to differ as float32 vectors
DecayTimestamps == {1, Len(DecayTable)}

DecayEvents ==
    {Event("U1", p, "view", t) : p \in {"P3", "P4"}, t \in DecayTimestamps}

AppendApart(ev) ==
    /\ Len(interactions) < MaxLog
    /\ interactions' = Append(interactions, ev)
    /\ ops' = Remember(ops, [kind |-> "append", ev |-> ev])
    /\ UNCHANGED <<storeVars, enrichVars, procs, cache, mergeIn, mergeOut,
                   cartOut, req>>

NextDecay ==
    \/ \E ev \in DecayEvents : AppendApart(ev)
    \/ \E d \in BOOLEAN, f \in BOOLEAN : CallGetOrBuild("U1", d, f)

SpecDecay == InitCache /\ [][NextDecay]_vars

\* the vector a recomputation from the current log gives the last call's
\* user under one setting of apply_time_decay, as a cache hit hands it back
Recomputed(apply_time_decay) ==
    F32(compute_user_embedding(LastOp.user_id, interactions,
                               apply_time_decay).vec)

\* C24: the vector returned by get_or_build_user_embedding reflects the
\* apply_time_decay argument of that call, also when the cache holds a fresh
\* entry written by an earlier call with the other setting (stated for
\* entries that are up to date with the log under one of the settings).
C24_VectorReflectsTimeDecay ==
    (ReturnedCached /\ \E d \in BOOLEAN : LastOp.vec = Recomputed(d)) =>
        LastOp.vec = Recomputed(LastOp.apply_time_decay)

----------------------------------------------------------------------------
(* Concurrent calls for different users (SpecRace) *)

\* both callers have finished calls, for two different users, that missed
\* the cache and wrote it
MissedApart ==
    /\ \A c \in Callers :
          /\ procs[c].pc = "done"
          /\ procs[c].raised = "none"
          /\ ~procs[c].hit
    /\ \A c, d \in Callers : c # d => procs[c].user_id # procs[d].user_id

\* C25: under every interleaving of two concurrent calls for two different
\* users that both miss the cache, once both have finished the cache holds
\* an entry for each of the two users: no write is lost by the whole-table
\* read-modify-write.
C25_NoLostWrite ==
    MissedApart =>
        \A c \in Callers : CachedRows(cache, procs[c].user_id) # <<>>

----------------------------------------------------------------------------
(* Placeholders and the explanation cache (SpecEnrich) *)

\* the files of data/llm_cache that hold a placeholder and are within
\* CACHE_TTL
StoredPlaceholders ==
    {f \in llm_cache : f.explanation = Placeholder /\ ~f.expired}

\* C26: a placeholder explanation produced by a collaborator failure is not
\* served from the explanation cache: when a request asks for the
\* explanation of a (user_id, product_id) whose stored explanation is the
\* placeholder, the collaborator is called again.
C26_PlaceholderNotServed ==
    [][\A f \in StoredPlaceholders :
          (req' # req /\ req'.kind = "response" /\ req'.user_id = f.user_id) =>
              \A i \in 1..Len(req'.calls) :
                 req'.ranked[i].product_id = f.product_id =>
                    req'.calls[i] # "cached"]_vars

----------------------------------------------------------------------------
(* The export of the interaction log (SpecExport): the SQLite store is    *)
(* created and filled by the data-creation script, and every request      *)
(* begins with ensure_user_interactions_parquet.                          *)

MaxDbRows == 2      \* rows of the SQLite interactions table

DbEvents == {Event(u, p, "view", 1) : u \in Users, p \in EventProducts}

\* (mutant) the export runs whether or not the parquet file exists
ensure_user_interactions_parquet_Always(exists, file, db) ==
    IF ~db.exists
    THEN [raised |-> "FileNotFoundError", read_db |-> FALSE,
          exists |-> exists, file |-> file]
    ELSE [raised |-> "none", read_db |-> TRUE, exists |-> TRUE,
          file |-> db.rows]

\* ensure_user_interactions_parquet(): exists and file are the parquet file
\* before the call and, in the result, after it; read_db: the SQLite store
\* was queried
ensure_user_interactions_parquet(exists, file, db) ==
    IF exists
    THEN [raised |-> "none", read_db |-> FALSE, exists |-> TRUE, file |-> file]
    ELSE IF ~db.exists
    THEN [raised |-> "FileNotFoundError", read_db |-> FALSE,
          exists |-> FALSE, file |-> file]
    ELSE [raised |-> "none", read_db |-> TRUE, exists |-> TRUE,
          file |-> db.rows]

InitExport ==
    /\ interactions = <<>>
    /\ cache = <<>>
    /\ ops = <<>>
    /\ mergeIn = <<>>
    /\ mergeOut = <<>>
    /\ cartOut = None
    /\ req = None
    /\ llm_cache = {}
    /\ catalog = [p \in Products |-> ProductName(p)]
    /\ client = FALSE
    /\ procs = <<>>
    /\ product_matrix = product_embeddings
    /\ searched = <<>>
    /\ sqlite_db = [exists |-> FALSE, rows |-> <<>>]
    /\ parquet_exists = FALSE

\* initialize_database(DB_PATH): the file and its empty table are created
InitializeDatabase ==
    /\ ~sqlite_db.exists
    /\ sqlite_db' = [exists |-> TRUE, rows |-> <<>>]
    /\ UNCHANGED <<enrichVars, procs, interactions, cache, ops, mergeIn,
                   mergeOut, cartOut, req, product_matrix, searched,
                   parquet_exists>>

\* store_interactions: a row is inserted into the interactions table
StoreInteraction(ev) ==
    /\ sqlite_db.exists
    /\ Len(sqlite_db.rows) < MaxDbRows
    /\ sqlite_db' = [sqlite_db EXCEPT !.rows = Append(@, ev)]
    /\ UNCHANGED <<enrichVars, procs, interactions, cache, ops, mergeIn,
                   mergeOut, cartOut, req, product_matrix, searched,
                   parquet_exists>>

\* recommend_for_user(user_id) from its first line: the export is ensured,
\* then the log is read from the parquet file and the generators run
EnsuredRequest(user_id) ==
    \E e \in {ensure_user_interactions_parquet(parquet_exists, interactions,
                                               sqlite_db)} :
       /\ parquet_exists' = e.exists
       /\ interactions' = e.file
       /\ IF e.raised # "none"
          THEN /\ req' = [kind |-> "ensured", user_id |-> user_id,
                          raised |-> e.raised, read_db |-> e.read_db,
                          interactions_df |-> <<>>, output |-> <<>>]
               /\ UNCHANGED cache
          ELSE \E vo \in SeedOrders(user_id, e.file, "view") :
               \E co \in SeedOrders(user_id, e.file, "add_to_cart") :
               \E po \in SeedOrders(user_id, e.file, "purchase") :
               \E loc_ok \in BOOLEAN :
               \E r \in {recommend_for_user(user_id, e.file, cache, vo, co, po,
                                            loc_ok)} :
                  /\ cache' = r.cache
                  /\ req' = [kind |-> "ensured", user_id |-> user_id,
                             raised |-> r.raised, read_db |-> e.read_db,
                             interactions_df |-> e.file, output |-> r.output]
       /\ UNCHANGED <<enrichVars, procs, ops, mergeIn, mergeOut, cartOut,
                      product_matrix, searched, sqlite_db>>

NextExport ==
    \/ InitializeDatabase
    \/ \E ev \in DbEvents : StoreInteraction(ev)
    \/ \E u \in Users : EnsuredRequest(u)

SpecExport == InitExport /\ [][NextExport]_vars

\* C27: ensure_user_interactions_parquet exports the interaction log at most
\* once: while the parquet file exists no step reads the SQLite store or
\* changes the file, so a request sees the rows of the first export whatever
\* was stored in SQLite since; and a request made while neither the parquet
\* file nor the SQLite database exists raises FileNotFoundError.
C27_ExportedOnce ==
    [][/\ parquet_exists => (parquet_exists' /\ interactions' = interactions)
       /\ (req' # req /\ req'.kind = "ensured") =>
             /\ parquet_exists =>
                   /\ ~req'.read_db
                   /\ req'.raised # "FileNotFoundError"
                   /\ req'.interactions_df = interactions
             /\ (~parquet_exists /\ ~sqlite_db.exists) =>
                   /\ req'.raised = "FileNotFoundError"
                   /\ ~parquet_exists']_vars

\* C27's case: a request has been answered from the exported file, without
\* a query of the SQLite store, after rows were stored there that the file
\* does not hold.
C27_Witness ==
    /\ req.kind = "ensured"
    /\ ~req.read_db
    /\ req.raised = "none"
    /\ parquet_exists
    /\ req.interactions_df = interactions
    /\ Len(sqlite_db.rows) > Len(interactions)

\* the other case of C27: a request has raised FileNotFoundError
C27_RaisedWithoutStore ==
    /\ req.kind = "ensured"
    /\ req.raised = "FileNotFoundError"
    /\ ~parquet_exists
    /\ ~sqlite_db.exists

====
